---- MODULE Spec2Model ----
(***************************************************************************)
(* training-pets backend: the REST handlers of main.py over the document   *)
(* store (collections dog, exercise, task, progresslog), the analytics     *)
(* summary, and the /ws/live echo channel.                                 *)
(*                                                                         *)
(* Encoding of values.  A JSON / Python value that may be None is an       *)
(* option: None is the empty tuple and a value v is the tuple <<v>>.       *)
(* Every schema field of a stored document is kept as such an option;      *)
(* _id, created_at and updated_at are kept bare.  Strings that the code    *)
(* inspects character by character (path ids) are tuples of one-character  *)
(* strings.  Timestamps are readings of the clock `now`.                   *)
(***************************************************************************)
EXTENDS Integers, Sequences, FiniteSets, TLC

VARIABLES
    db,           \* database.db: "None" or "Database" (fixed at import time)
    dog,          \* collection "dog": sequence of documents in insertion order
    exercise,     \* collection "exercise"
    task,         \* collection "task"
    progresslog,  \* collection "progresslog"
    now,          \* the reading datetime.now(timezone.utc) returns
    resp,         \* the last HTTP request and its response
    wsPc,         \* websocket_endpoint: position of the coroutine
    wsClient,     \* the peer of the live channel: "open" or "closed"
    wsInbox,      \* text frames the client sent that the handler has not received
    wsData,       \* websocket_endpoint: local variable data
    wsRecv,       \* frames receive_text has returned, in order
    wsSent,       \* frames the server sent to the client, in order
    reqs,         \* requests running concurrently: each one's position and locals
    patches       \* PATCH requests served (counted where their number is bounded)

storeVars == <<dog, exercise, task, progresslog>>
wsVars == <<wsPc, wsClient, wsInbox, wsData, wsRecv, wsSent>>
vars == <<db, dog, exercise, task, progresslog, now, resp, wsPc, wsClient,
          wsInbox, wsData, wsRecv, wsSent, reqs, patches>>

(***************************************************************************)
(* Bounds of the model.                                                    *)
(***************************************************************************)
MaxDocs == 2      \* documents in the store
MaxQueryDocs == 3 \* documents in the store of QuerySpec
MaxClock == 1     \* readings of the clock after the first
MaxPatches == 1   \* PATCH requests of UpdateSpec
MaxFrames == 3    \* text frames a live-channel client sends

(***************************************************************************)
(* Options, and small helpers.                                             *)
(***************************************************************************)
None == <<>>
Some(v) == <<v>>

\* Python truthiness of an Optional[str]: None and "" are falsy.
Truthy(o) == o # None /\ o[1] # ""

Min(S) == CHOOSE x \in S : \A y \in S : x <= y

Take(s, n) == IF n >= Len(s) THEN s ELSE SubSeq(s, 1, n)

RECURSIVE Gcd(_, _)
Gcd(a, b) == IF b = 0 THEN a ELSE Gcd(b, a % b)

\* a / b for b > 0, as the exact fraction in lowest terms
TrueDiv(a, b) == [num |-> a \div Gcd(a, b), den |-> b \div Gcd(a, b)]

(***************************************************************************)
(* Store identifiers.  bson.ObjectId(s) accepts a str exactly when it is   *)
(* 24 hexadecimal digits, upper or lower case, and str(ObjectId) is the    *)
(* lower-case form.                                                        *)
(***************************************************************************)
ObjectIdHexLen == 24

LowerHex == {"0", "1", "2", "3", "4", "5", "6", "7", "8", "9",
             "a", "b", "c", "d", "e", "f"}
UpperHex == {"A", "B", "C", "D", "E", "F"}

Lower(c) == CASE c = "A" -> "a" [] c = "B" -> "b" [] c = "C" -> "c"
              [] c = "D" -> "d" [] c = "E" -> "e" [] c = "F" -> "f"
              [] OTHER -> c

IsObjectIdStr(s) ==
    /\ Len(s) = ObjectIdHexLen
    /\ \A i \in 1..Len(s) : s[i] \in LowerHex \union UpperHex

ObjectId(s) == [oid |-> [i \in 1..Len(s) |-> Lower(s[i])]]

str(o) == o.oid

\* a string of n copies of the character c
Rep(c, n) == [i \in 1..n |-> c]

\* the identifiers the store hands out, in order
IdDigits == <<"a", "b", "c", "d", "e", "f", "0", "1", "2", "3", "4", "5">>

\* the number of documents in the store
StoreSize == Len(dog) + Len(exercise) + Len(task) + Len(progresslog)

NewObjectId == ObjectId(Rep(IdDigits[StoreSize + 1], ObjectIdHexLen))

(***************************************************************************)
(* HTTP responses.  store: whether the handler called into the store.      *)
(***************************************************************************)
Response(code, body, store) == [code |-> code, body |-> body, store |-> store]

HTTPException(code, detail, store) == Response(code, [detail |-> detail], store)

\* FastAPI's answer to a body or query parameter that fails validation
ValidationError == Response(422, [detail |-> "validation"], FALSE)

(***************************************************************************)
(* database.py (not part of the sources; after the specification): the     *)
(* adapter fails a write when there is no connection and reads degrade to  *)
(* an empty result.                                                        *)
(***************************************************************************)
Matches(d, filt) == \A k \in DOMAIN filt : k \in DOMAIN d /\ d[k] = Some(filt[k])

get_documents(coll, filt, limit) ==
    IF db = "None" THEN <<>>
    ELSE LET found == SelectSeq(coll, LAMBDA d : Matches(d, filt))
         IN  IF limit = None THEN found ELSE Take(found, limit[1])

\* the stored document of a validated model
NewDocument(model) ==
    [k \in DOMAIN model \union {"_id", "created_at", "updated_at"} |->
        CASE k = "_id" -> NewObjectId
          [] k \in {"created_at", "updated_at"} -> now
          [] OTHER -> model[k]]

create_document(coll, model) ==
    IF db = "None"
    THEN [coll |-> coll, resp |-> HTTPException(500, "Database not available", FALSE)]
    ELSE [coll |-> Append(coll, NewDocument(model)),
          resp |-> Response(200, [id |-> str(NewObjectId)], TRUE)]

(***************************************************************************)
(* schemas.py: defaults and field constraints of the request bodies.  A    *)
(* raw body is a record of the fields the client sent.                     *)
(***************************************************************************)
WithDefaults(raw, defaults) ==
    [f \in DOMAIN defaults |-> IF f \in DOMAIN raw THEN raw[f] ELSE defaults[f]]

\* a required field: present and not null
Required(raw, f) == f \in DOMAIN raw /\ raw[f] # None

\* Field(None, ge=lo) on an optional number
Ge(m, f, lo) == m[f] = None \/ m[f][1] >= lo
Le(m, f, hi) == m[f] = None \/ m[f][1] <= hi

DogDefaults ==
    [name |-> None, breed |-> None, age_months |-> None, weight_kg |-> None,
     owner_name |-> None, tags |-> Some(<<>>)]
Dog(raw) == WithDefaults(raw, DogDefaults)
DogValid(raw) ==
    /\ Required(raw, "name")
    /\ Ge(Dog(raw), "age_months", 0)
    /\ Ge(Dog(raw), "weight_kg", 0)

ExerciseDefaults ==
    [title |-> None, description |-> None, difficulty |-> Some("beginner"),
     duration_min |-> Some(5), cues |-> Some(<<>>), goals |-> Some(<<>>)]
Exercise(raw) == WithDefaults(raw, ExerciseDefaults)
ExerciseValid(raw) ==
    /\ Required(raw, "title")
    /\ Ge(Exercise(raw), "duration_min", 1)

TaskDefaults ==
    [dog_id |-> None, exercise_id |-> None, title |-> None, steps |-> Some(<<>>),
     scheduled_for |-> None, status |-> Some("pending"), language |-> Some("en")]
Task(raw) == WithDefaults(raw, TaskDefaults)
TaskValid(raw) ==
    /\ Required(raw, "title")
    /\ \A f \in {"steps", "status", "language"} : f \in DOMAIN raw => raw[f] # None

ProgressLogDefaults ==
    [task_id |-> None, dog_id |-> None, success |-> None, notes |-> None,
     score |-> None, step_index |-> None]
ProgressLog(raw) == WithDefaults(raw, ProgressLogDefaults)
ProgressLogValid(raw) ==
    /\ Required(raw, "task_id")
    /\ Required(raw, "success")
    /\ Ge(ProgressLog(raw), "score", 0)
    /\ Le(ProgressLog(raw), "score", 1)
    /\ Ge(ProgressLog(raw), "step_index", 0)

(***************************************************************************)
(* main.py: utilities.                                                     *)
(***************************************************************************)
\* as to_object_id, had only the length of the id been checked
to_object_id_len(id_str) ==
    IF Len(id_str) = ObjectIdHexLen
    THEN [ok |-> TRUE, oid |-> ObjectId(id_str)]
    ELSE [ok |-> FALSE, oid |-> None]

to_object_id(id_str) ==
    IF IsObjectIdStr(id_str)
    THEN [ok |-> TRUE, oid |-> ObjectId(id_str)]
    ELSE [ok |-> FALSE, oid |-> None]

\* as QueryOk, had the lower bound ge=lo been left out
QueryOkNoMin(raw, lo, hi) == raw = None \/ raw[1] <= hi

\* Query(default, ge=lo, le=hi) on an optional integer query parameter
QueryOk(raw, lo, hi) == raw = None \/ (raw[1] >= lo /\ raw[1] <= hi)
QueryValue(raw, default) == IF raw = None THEN default ELSE raw[1]

\* d["_id"] = str(d.get("_id")) for every document of a listing
Stringified(docs) == [i \in 1..Len(docs) |-> [docs[i] EXCEPT !._id = str(@)]]

(***************************************************************************)
(* main.py: create handlers.                                               *)
(***************************************************************************)
create_dog(raw) ==
    IF ~DogValid(raw) THEN [coll |-> dog, resp |-> ValidationError]
    ELSE create_document(dog, Dog(raw))

create_exercise(raw) ==
    IF ~ExerciseValid(raw) THEN [coll |-> exercise, resp |-> ValidationError]
    ELSE create_document(exercise, Exercise(raw))

create_task(raw) ==
    IF ~TaskValid(raw) THEN [coll |-> task, resp |-> ValidationError]
    ELSE create_document(task, Task(raw))

log_progress(raw) ==
    IF ~ProgressLogValid(raw) THEN [coll |-> progresslog, resp |-> ValidationError]
    ELSE create_document(progresslog, ProgressLog(raw))

(***************************************************************************)
(* main.py: list handlers.                                                 *)
(***************************************************************************)
DogsDefaultLimit == 100
DogsMaxLimit == 500
ExercisesDefaultLimit == 200
ExercisesMaxLimit == 1000
TasksDefaultLimit == 50
TasksMaxLimit == 500
ProgressDefaultLimit == 200
ProgressMaxLimit == 1000

Listing(docs) == Response(200, [items |-> Stringified(docs)], db # "None")

list_dogs(limit) ==
    IF ~QueryOk(limit, 1, DogsMaxLimit) THEN ValidationError
    ELSE Listing(get_documents(dog, <<>>, Some(QueryValue(limit, DogsDefaultLimit))))

list_exercises(limit) ==
    IF ~QueryOk(limit, 1, ExercisesMaxLimit) THEN ValidationError
    ELSE Listing(get_documents(exercise, <<>>,
                               Some(QueryValue(limit, ExercisesDefaultLimit))))

\* the filter dict of a handler: a key is set only when its parameter is truthy
Filter(params) ==
    [k \in {f \in DOMAIN params : Truthy(params[f])} |-> params[k][1]]

list_tasks(dog_id, status, limit) ==
    IF ~QueryOk(limit, 1, TasksMaxLimit) THEN ValidationError
    ELSE Listing(get_documents(task, Filter([dog_id |-> dog_id, status |-> status]),
                               Some(QueryValue(limit, TasksDefaultLimit))))

list_progress(dog_id, task_id, limit) ==
    IF ~QueryOk(limit, 1, ProgressMaxLimit) THEN ValidationError
    ELSE Listing(get_documents(progresslog,
                               Filter([dog_id |-> dog_id, task_id |-> task_id]),
                               Some(QueryValue(limit, ProgressDefaultLimit))))

(***************************************************************************)
(* main.py: task transitions.                                              *)
(***************************************************************************)
TaskUpdateFields == {"title", "steps", "status", "scheduled_for", "language"}

\* class TaskUpdate: every field Optional with default None
TaskUpdate(raw) == WithDefaults(raw, [f \in TaskUpdateFields |-> None])

\* {"$set": set_doc} applied to one document
SetFields(d, set_doc) ==
    [k \in DOMAIN d \union DOMAIN set_doc |->
        IF k \in DOMAIN set_doc THEN set_doc[k] ELSE d[k]]

\* as update_one, had the filter been empty: the first document is updated
update_one_unfiltered(coll, oid, set_doc) ==
    IF coll = <<>>
    THEN [matched_count |-> 0, modified_count |-> 0, coll |-> coll]
    ELSE [matched_count |-> 1,
          modified_count |-> IF SetFields(coll[1], set_doc) = coll[1] THEN 0 ELSE 1,
          coll |-> [coll EXCEPT ![1] = SetFields(coll[1], set_doc)]]

\* collection.update_one({"_id": oid}, {"$set": set_doc})
update_one(coll, oid, set_doc) ==
    LET hits == {i \in 1..Len(coll) : coll[i]._id = oid}
    IN  IF hits = {}
        THEN [matched_count |-> 0, modified_count |-> 0, coll |-> coll]
        ELSE LET i == Min(hits)
                 d == SetFields(coll[i], set_doc)
             IN  [matched_count |-> 1,
                  modified_count |-> IF d = coll[i] THEN 0 ELSE 1,
                  coll |-> [coll EXCEPT ![i] = d]]

\* as AppliedFields, had the comprehension tested `if v` (truthiness)
AppliedFieldsTruthy(dump) ==
    {k \in DOMAIN dump :
        /\ dump[k] # None
        /\ ~(k \in {"title", "status", "language"} /\ dump[k][1] = "")
        /\ ~(k = "steps" /\ dump[k][1] = <<>>)}

\* as AppliedFields, had the comprehension kept the None fields
AppliedFieldsAll(dump) == DOMAIN dump

\* the dict comprehension of update_task: the fields that are not None
AppliedFields(dump) == {k \in DOMAIN dump : dump[k] # None}

\* update_doc of update_task; payload is None (no body) or Some(raw body)
TaskUpdateDoc(payload) ==
    LET dump == IF payload = None THEN <<>> ELSE TaskUpdate(payload[1])
        keys == AppliedFields(dump)
    IN  [k \in keys \union {"updated_at"} |->
            IF k = "updated_at" THEN now ELSE dump[k]]

\* as CompleteDoc, had complete_task also stamped a completion time
CompleteDocStamped ==
    [status |-> Some("completed"), updated_at |-> now, completed_at |-> now]

\* the $set document of complete_task
CompleteDoc == [status |-> Some("completed"), updated_at |-> now]

\* as NotMatched, had the handlers tested res.modified_count
NotModified(res) == res.modified_count = 0

\* res.matched_count == 0
NotMatched(res) == res.matched_count = 0

\* as update_task, had the id been parsed before the connection is checked
update_task_id_first(task_id, payload) ==
    LET o == to_object_id(task_id) IN
    IF ~o.ok
    THEN [coll |-> task, resp |-> HTTPException(400, "Invalid id format", FALSE)]
    ELSE IF db = "None"
    THEN [coll |-> task, resp |-> HTTPException(500, "Database not configured", FALSE)]
    ELSE LET res == update_one(task, o.oid, TaskUpdateDoc(payload)) IN
         IF NotMatched(res)
         THEN [coll |-> res.coll, resp |-> HTTPException(404, "Task not found", TRUE)]
         ELSE [coll |-> res.coll, resp |-> Response(200, [updated |-> TRUE], TRUE)]

update_task(task_id, payload) ==
    IF db = "None"
    THEN [coll |-> task, resp |-> HTTPException(500, "Database not configured", FALSE)]
    ELSE LET o == to_object_id(task_id) IN
         IF ~o.ok
         THEN [coll |-> task, resp |-> HTTPException(400, "Invalid id format", FALSE)]
         ELSE LET res == update_one(task, o.oid, TaskUpdateDoc(payload)) IN
              IF NotMatched(res)
              THEN [coll |-> res.coll, resp |-> HTTPException(404, "Task not found", TRUE)]
              ELSE [coll |-> res.coll, resp |-> Response(200, [updated |-> TRUE], TRUE)]

complete_task(task_id) ==
    IF db = "None"
    THEN [coll |-> task, resp |-> HTTPException(500, "Database not configured", FALSE)]
    ELSE LET o == to_object_id(task_id) IN
         IF ~o.ok
         THEN [coll |-> task, resp |-> HTTPException(400, "Invalid id format", FALSE)]
         ELSE LET res == update_one(task, o.oid, CompleteDoc) IN
              IF NotMatched(res)
              THEN [coll |-> res.coll, resp |-> HTTPException(404, "Task not found", TRUE)]
              ELSE [coll |-> res.coll, resp |-> Response(200, [completed |-> TRUE], TRUE)]

(***************************************************************************)
(* main.py: analytics summary.                                             *)
(***************************************************************************)
\* as SummaryFilter, had the test been `dog_id is not None`
SummaryFilterNotNone(dog_id) ==
    IF dog_id = None THEN <<>> ELSE [dog_id |-> dog_id[1]]

\* {"dog_id": dog_id} if dog_id else {}
SummaryFilter(dog_id) == Filter([dog_id |-> dog_id])

analytics_summary(dog_id) ==
    LET tasks == get_documents(task, SummaryFilter(dog_id), None)
        logs == get_documents(progresslog, SummaryFilter(dog_id), None)
        total_tasks == Len(tasks)
        completed == Len(SelectSeq(tasks, LAMBDA t : t.status = Some("completed")))
        successes == Len(SelectSeq(logs, LAMBDA l : l.success = Some(TRUE)))
        success_rate == IF logs # <<>> THEN Some(TrueDiv(successes, Len(logs)))
                        ELSE None
    IN  Response(200, [total_tasks |-> total_tasks, completed_tasks |-> completed,
                       success_rate |-> success_rate], db # "None")

(***************************************************************************)
(* Requests.  resp records the request (op, arg) with its response; again  *)
(* tells that the request repeats the one before it, which succeeded.      *)
(***************************************************************************)
Answer(op, arg, r) ==
    [op |-> op, arg |-> arg, code |-> r.code, body |-> r.body, store |-> r.store,
     again |-> resp.op = op /\ resp.code = 200 /\ resp.arg = arg]

NoRequest ==
    [op |-> "none", arg |-> None, code |-> 0, body |-> None, store |-> FALSE,
     again |-> FALSE]

(***************************************************************************)
(* The request bodies and parameters the model sends.                      *)
(***************************************************************************)
DogBodies ==
    { [name |-> Some("Rex"), age_months |-> Some(7)],
      [name |-> Some("Rex"), age_months |-> Some(-1)] }

ExerciseBodies ==
    { [title |-> Some("Recall")],
      [title |-> Some("Recall"), duration_min |-> Some(0)] }

TaskBodies ==
    { [title |-> Some("Sit"), dog_id |-> Some("d1"), steps |-> Some(<<"lure", "mark">>)],
      [title |-> Some("Stay"), dog_id |-> Some(""), status |-> Some("completed"),
       language |-> Some("he"), scheduled_for |-> Some(0), exercise_id |-> Some("e1")],
      [title |-> Some("Come"), status |-> Some("paused")],
      [dog_id |-> Some("d1")] }

LogBodies ==
    { [task_id |-> Some("t1"), dog_id |-> Some("d1"), success |-> Some(TRUE)],
      [task_id |-> Some("t1"), dog_id |-> Some("d1"), success |-> Some(FALSE)],
      [task_id |-> Some("t2"), dog_id |-> Some(""), success |-> Some(TRUE),
       score |-> Some(1)],
      [task_id |-> Some("t1"), success |-> Some(TRUE), score |-> Some(2)],
      [task_id |-> Some("t1")] }

PathIds ==
    { Rep("a", ObjectIdHexLen), Rep("A", ObjectIdHexLen), Rep("b", ObjectIdHexLen),
      Rep("f", ObjectIdHexLen), Rep("g", ObjectIdHexLen), Rep("a", ObjectIdHexLen - 1) }

\* the value an update payload gives a field it sets
UpdateValue ==
    [title |-> "Heel", steps |-> <<>>, status |-> "in_progress", scheduled_for |-> 1,
     language |-> ""]

Presences == {"absent", "null", "value"}

\* the raw PATCH body in which field f is absent, null or set, as p[f] says
RawUpdate(p) ==
    [f \in {g \in DOMAIN p : p[g] # "absent"} |->
        IF p[f] = "null" THEN None ELSE Some(UpdateValue[f])]

\* every PATCH body: no body at all, or each field absent, null or set
AllPayloads == {None} \union {Some(RawUpdate(p)) : p \in [TaskUpdateFields -> Presences]}

SamplePayloads ==
    { None, Some([status |-> Some("in_progress"), title |-> None]) }

DogIdParams == {None, Some(""), Some("d1")}
StatusParams == {None, Some("completed")}
TaskIdParams == {None, Some("t1")}
LimitParams == {None, Some(0), Some(1)}

(***************************************************************************)
(* Actions: one per handler.                                               *)
(***************************************************************************)
Tick ==
    /\ now < MaxClock
    /\ now' = now + 1
    /\ UNCHANGED <<db, storeVars, resp, wsVars, reqs, patches>>

CreateDog(raw) ==
    LET r == create_dog(raw) IN
    /\ dog' = r.coll
    /\ resp' = Answer("create_dog", raw, r.resp)
    /\ UNCHANGED <<db, exercise, task, progresslog, now, wsVars, reqs, patches>>

CreateExercise(raw) ==
    LET r == create_exercise(raw) IN
    /\ exercise' = r.coll
    /\ resp' = Answer("create_exercise", raw, r.resp)
    /\ UNCHANGED <<db, dog, task, progresslog, now, wsVars, reqs, patches>>

CreateTask(raw) ==
    LET r == create_task(raw) IN
    /\ task' = r.coll
    /\ resp' = Answer("create_task", raw, r.resp)
    /\ UNCHANGED <<db, dog, exercise, progresslog, now, wsVars, reqs, patches>>

LogProgress(raw) ==
    LET r == log_progress(raw) IN
    /\ progresslog' = r.coll
    /\ resp' = Answer("log_progress", raw, r.resp)
    /\ UNCHANGED <<db, dog, exercise, task, now, wsVars, reqs, patches>>

ListDogs(limit) ==
    /\ resp' = Answer("list_dogs", [limit |-> limit], list_dogs(limit))
    /\ UNCHANGED <<db, storeVars, now, wsVars, reqs, patches>>

ListExercises(limit) ==
    /\ resp' = Answer("list_exercises", [limit |-> limit], list_exercises(limit))
    /\ UNCHANGED <<db, storeVars, now, wsVars, reqs, patches>>

ListTasks(dog_id, status, limit) ==
    /\ resp' = Answer("list_tasks", [dog_id |-> dog_id, status |-> status, limit |-> limit],
                      list_tasks(dog_id, status, limit))
    /\ UNCHANGED <<db, storeVars, now, wsVars, reqs, patches>>

ListProgress(dog_id, task_id, limit) ==
    /\ resp' = Answer("list_progress",
                      [dog_id |-> dog_id, task_id |-> task_id, limit |-> limit],
                      list_progress(dog_id, task_id, limit))
    /\ UNCHANGED <<db, storeVars, now, wsVars, reqs, patches>>

\* PATCH /tasks/{task_id}, but for the count of such requests
Patch(task_id, payload) ==
    LET r == update_task(task_id, payload) IN
    /\ task' = r.coll
    /\ resp' = Answer("update_task", [task_id |-> task_id, payload |-> payload], r.resp)
    /\ UNCHANGED <<db, dog, exercise, progresslog, now, wsVars, reqs>>

UpdateTask(task_id, payload) == Patch(task_id, payload) /\ UNCHANGED patches

CompleteTask(task_id) ==
    LET r == complete_task(task_id) IN
    /\ task' = r.coll
    /\ resp' = Answer("complete_task", [task_id |-> task_id], r.resp)
    /\ UNCHANGED <<db, dog, exercise, progresslog, now, wsVars, reqs, patches>>

AnalyticsSummary(dog_id) ==
    /\ resp' = Answer("analytics_summary", [dog_id |-> dog_id], analytics_summary(dog_id))
    /\ UNCHANGED <<db, storeVars, now, wsVars, reqs, patches>>

WsIdle ==
    /\ wsPc = "idle" /\ wsClient = "open" /\ wsInbox = <<>> /\ wsData = ""
    /\ wsRecv = <<>> /\ wsSent = <<>>

EmptyStore == dog = <<>> /\ exercise = <<>> /\ task = <<>> /\ progresslog = <<>>

(***************************************************************************)
(* Spec: the whole HTTP API, one request at a time.                        *)
(***************************************************************************)
Init ==
    /\ db \in {"None", "Database"}
    /\ EmptyStore
    /\ now = 0
    /\ resp = NoRequest
    /\ WsIdle
    /\ reqs = <<>>
    /\ patches = 0

ApiIds == {Rep("a", ObjectIdHexLen), Rep("b", ObjectIdHexLen), Rep("g", ObjectIdHexLen)}

Next ==
    \/ Tick
    \/ \E raw \in DogBodies : StoreSize < MaxDocs /\ CreateDog(raw)
    \/ \E raw \in ExerciseBodies : StoreSize < MaxDocs /\ CreateExercise(raw)
    \/ \E raw \in {b \in TaskBodies : "steps" \in DOMAIN b \/ "title" \notin DOMAIN b} :
          StoreSize < MaxDocs /\ CreateTask(raw)
    \/ \E raw \in {b \in LogBodies : "dog_id" \notin DOMAIN b} : StoreSize < MaxDocs /\ LogProgress(raw)
    \/ ListDogs(None)
    \/ ListExercises(None)
    \/ ListTasks(None, None, None)
    \/ ListProgress(None, None, None)
    \/ \E id \in ApiIds, payload \in SamplePayloads \ {None} : UpdateTask(id, payload)
    \/ \E id \in ApiIds : CompleteTask(id)
    \/ AnalyticsSummary(None)

Spec == Init /\ [][Next]_vars

(***************************************************************************)
(* TaskSpec: the life of tasks (create, PATCH, complete) with every shape  *)
(* of path id.                                                             *)
(***************************************************************************)
TaskNext ==
    \/ Tick
    \/ \E raw \in TaskBodies : StoreSize < MaxDocs /\ CreateTask(raw)
    \/ \E id \in PathIds, payload \in SamplePayloads : UpdateTask(id, payload)
    \/ \E id \in PathIds : CompleteTask(id)

TaskSpec == Init /\ [][TaskNext]_vars

(***************************************************************************)
(* UpdateSpec: PATCH requests with every payload, on stores of tasks.      *)
(***************************************************************************)
UpdateIds == {Rep("a", ObjectIdHexLen), Rep("B", ObjectIdHexLen), Rep("f", ObjectIdHexLen)}

UpdateInit == Init /\ db = "Database"

UpdateNext ==
    \/ Tick
    \/ \E raw \in {b \in TaskBodies : "dog_id" \in DOMAIN b /\ "title" \in DOMAIN b} :
          StoreSize < MaxDocs /\ CreateTask(raw)
    \/ \E id \in UpdateIds, payload \in AllPayloads :
          patches < MaxPatches /\ patches' = patches + 1 /\ Patch(id, payload)

UpdateSpec == UpdateInit /\ [][UpdateNext]_vars

(***************************************************************************)
(* QuerySpec: the read side (listings and the summary) over every store    *)
(* the create handlers build.                                              *)
(***************************************************************************)
QueryNext ==
    \/ \E raw \in DogBodies : StoreSize < MaxQueryDocs /\ CreateDog(raw)
    \/ \E raw \in ExerciseBodies : StoreSize < MaxQueryDocs /\ CreateExercise(raw)
    \/ \E raw \in TaskBodies : StoreSize < MaxQueryDocs /\ CreateTask(raw)
    \/ \E raw \in LogBodies : StoreSize < MaxQueryDocs /\ LogProgress(raw)
    \/ \E limit \in LimitParams \union {Some(DogsMaxLimit + 1)} : ListDogs(limit)
    \/ \E limit \in LimitParams \union {Some(ExercisesMaxLimit + 1)} : ListExercises(limit)
    \/ \E d \in DogIdParams, s \in StatusParams,
          limit \in LimitParams \union {Some(TasksMaxLimit + 1)} : ListTasks(d, s, limit)
    \/ \E d \in DogIdParams, t \in TaskIdParams,
          limit \in LimitParams \union {Some(ProgressMaxLimit + 1)} : ListProgress(d, t, limit)
    \/ \E d \in DogIdParams : AnalyticsSummary(d)

QuerySpec == Init /\ [][QueryNext]_vars

(***************************************************************************)
(* RaceSpec: one PATCH and one complete request running concurrently.      *)
(* Each handler reads the clock and builds its $set document, then makes   *)
(* its single update_one call; the store applies update_one atomically.    *)
(***************************************************************************)
RaceIds == {Rep("a", ObjectIdHexLen)}

\* the PATCH bodies that do not set status
RacePayloads ==
    {pl \in AllPayloads :
        pl = None \/ "status" \notin DOMAIN pl[1] \/ pl[1].status = None}

NoResponse == Response(0, None, FALSE)

\* update_task / complete_task up to the update_one call
ReqEnter(r) ==
    LET q == reqs[r]
        o == to_object_id(q.task_id)
    IN  /\ q.pc = "start"
        /\ reqs' = [reqs EXCEPT ![r] =
              IF db = "None"
              THEN [q EXCEPT !.pc = "done",
                             !.resp = HTTPException(500, "Database not configured", FALSE)]
              ELSE IF ~o.ok
              THEN [q EXCEPT !.pc = "done",
                             !.resp = HTTPException(400, "Invalid id format", FALSE)]
              ELSE [q EXCEPT !.pc = "ready",
                             !.oid = o.oid,
                             !.found = \E i \in 1..Len(task) : task[i]._id = o.oid,
                             !.set_doc = IF r = "patch" THEN TaskUpdateDoc(q.payload)
                                         ELSE CompleteDoc]]
        /\ UNCHANGED <<db, storeVars, now, resp, wsVars, patches>>

\* the update_one call and the rest of the handler
ReqCommit(r) ==
    LET q == reqs[r]
        res == update_one(task, q.oid, q.set_doc)
    IN  /\ q.pc = "ready"
        /\ task' = res.coll
        /\ reqs' = [reqs EXCEPT ![r] =
              [q EXCEPT !.pc = "done",
                        !.resp = IF NotMatched(res)
                                 THEN HTTPException(404, "Task not found", TRUE)
                                 ELSE Response(200, IF r = "patch" THEN [updated |-> TRUE]
                                                    ELSE [completed |-> TRUE], TRUE)]]
        /\ UNCHANGED <<db, dog, exercise, progresslog, now, resp, wsVars, patches>>

NewRequest(task_id, payload) ==
    [pc |-> "start", task_id |-> task_id, payload |-> payload, oid |-> None,
     found |-> FALSE, set_doc |-> None, resp |-> NoResponse]

RaceInit ==
    /\ db = "Database"
    /\ EmptyStore
    /\ now = 0
    /\ resp = NoRequest
    /\ WsIdle
    /\ patches = 0
    /\ \E id \in RaceIds, pl \in RacePayloads :
          reqs = [patch |-> NewRequest(id, pl), complete |-> NewRequest(id, None)]

RaceNext ==
    \/ Tick
    \/ \E raw \in {b \in TaskBodies : "steps" \in DOMAIN b} : StoreSize < MaxDocs /\ CreateTask(raw)
    \/ \E r \in {"patch", "complete"} : ReqEnter(r)
    \/ \E r \in {"patch", "complete"} : ReqCommit(r)

RaceSpec == RaceInit /\ [][RaceNext]_vars

(***************************************************************************)
(* LiveSpec: one connection to /ws/live.  The channel is established by    *)
(* accept; from then on the client sends text frames and may disconnect    *)
(* at any moment.  Frames sent before the disconnect are still delivered   *)
(* to the handler.  A send to a client that has disconnected sends nothing *)
(* and raises WebSocketDisconnect, as receive_text does once the inbox is  *)
(* drained.                                                                *)
(***************************************************************************)
Texts == {"X", "Y"}

WelcomeFrame == [type |-> "welcome", text |-> "Connected to training-pets live coach"]
EchoFrame(data) == [type |-> "echo", text |-> data]

\* as Caught, had the handler caught another exception type
CaughtRuntimeError(exc) == exc = "RuntimeError"

\* except WebSocketDisconnect: pass
Caught(exc) == exc = "WebSocketDisconnect"
Raised(exc) == IF Caught(exc) THEN "done" ELSE "error"

WsAccept ==
    /\ wsPc = "accept"
    /\ wsPc' = "welcome"
    /\ UNCHANGED <<wsClient, wsInbox, wsData, wsRecv, wsSent>>
    /\ UNCHANGED <<db, storeVars, now, resp, reqs, patches>>

WsSendWelcome ==
    /\ wsPc = "welcome"
    /\ IF wsClient = "open"
       THEN wsSent' = Append(wsSent, WelcomeFrame) /\ wsPc' = "receive"
       ELSE wsSent' = wsSent /\ wsPc' = Raised("WebSocketDisconnect")
    /\ UNCHANGED <<wsClient, wsInbox, wsData, wsRecv>>
    /\ UNCHANGED <<db, storeVars, now, resp, reqs, patches>>

WsReceive ==
    /\ wsPc = "receive"
    /\ \/ /\ wsInbox # <<>>
          /\ wsData' = Head(wsInbox)
          /\ wsInbox' = Tail(wsInbox)
          /\ wsRecv' = Append(wsRecv, Head(wsInbox))
          /\ wsPc' = "echo"
       \/ /\ wsInbox = <<>>
          /\ wsClient = "closed"
          /\ wsPc' = Raised("WebSocketDisconnect")
          /\ UNCHANGED <<wsData, wsInbox, wsRecv>>
    /\ UNCHANGED <<wsClient, wsSent>>
    /\ UNCHANGED <<db, storeVars, now, resp, reqs, patches>>

WsSendEcho ==
    /\ wsPc = "echo"
    /\ IF wsClient = "open"
       THEN wsSent' = Append(wsSent, EchoFrame(wsData)) /\ wsPc' = "receive"
       ELSE wsSent' = wsSent /\ wsPc' = Raised("WebSocketDisconnect")
    /\ UNCHANGED <<wsClient, wsInbox, wsData, wsRecv>>
    /\ UNCHANGED <<db, storeVars, now, resp, reqs, patches>>

ClientSend(x) ==
    /\ wsClient = "open"
    /\ wsPc \notin {"idle", "accept"}
    /\ Len(wsRecv) + Len(wsInbox) < MaxFrames
    /\ wsInbox' = Append(wsInbox, x)
    /\ UNCHANGED <<wsPc, wsClient, wsData, wsRecv, wsSent>>
    /\ UNCHANGED <<db, storeVars, now, resp, reqs, patches>>

ClientDisconnect ==
    /\ wsClient = "open"
    /\ wsPc \notin {"idle", "accept"}
    /\ wsClient' = "closed"
    /\ UNCHANGED <<wsPc, wsInbox, wsData, wsRecv, wsSent>>
    /\ UNCHANGED <<db, storeVars, now, resp, reqs, patches>>

WsServer == WsAccept \/ WsSendWelcome \/ WsReceive \/ WsSendEcho

LiveInit ==
    /\ db = "Database"
    /\ EmptyStore
    /\ now = 0
    /\ resp = NoRequest
    /\ reqs = <<>>
    /\ patches = 0
    /\ wsPc = "accept" /\ wsClient = "open" /\ wsInbox = <<>> /\ wsData = ""
    /\ wsRecv = <<>> /\ wsSent = <<>>

LiveNext ==
    \/ WsAccept
    \/ WsSendWelcome
    \/ WsReceive
    \/ WsSendEcho
    \/ \E x \in Texts : ClientSend(x)
    \/ ClientDisconnect

\* the event loop resumes the coroutine whenever what it awaits is ready
LiveSpec == LiveInit /\ [][LiveNext]_vars /\ WF_vars(WsServer)

(***************************************************************************)
(* Properties.                                                             *)
(***************************************************************************)
TaskOps == {"update_task", "complete_task"}

\* the positions of the tasks a path id names
TasksNamed(tasks, id_str) ==
    {i \in 1..Len(tasks) : IsObjectIdStr(id_str) /\ tasks[i]._id = ObjectId(id_str)}

\* the fields a PATCH body holds with a value other than null
SetByPayload(payload) ==
    IF payload = None THEN {}
    ELSE {f \in DOMAIN payload[1] \intersect TaskUpdateFields : payload[1][f] # None}

\* d2 is d1 but for the fields in changed
SameBut(d1, d2, changed) ==
    /\ DOMAIN d2 = DOMAIN d1
    /\ \A f \in DOMAIN d1 \ changed : d2[f] = d1[f]

\* C1: a successful update_task sets exactly the payload's non-null fields to
\* the payload's values, stamps updated_at with the clock, and leaves every
\* other field of the task, every other task and every other collection as
\* they were; an empty or all-null payload changes updated_at alone.
C1_UpdateFrame ==
    [][(patches' # patches /\ resp'.code = 200) =>
        LET id == resp'.arg.task_id
            pl == resp'.arg.payload
        IN  /\ TasksNamed(task, id) # {}
            /\ Len(task') = Len(task)
            /\ \A i \in 1..Len(task) :
                  IF i \in TasksNamed(task, id)
                  THEN /\ SameBut(task[i], task'[i], SetByPayload(pl) \union {"updated_at"})
                       /\ \A f \in SetByPayload(pl) : task'[i][f] = pl[1][f]
                       /\ task'[i].updated_at = now
                  ELSE task'[i] = task[i]
            /\ UNCHANGED <<dog, exercise, progresslog>>]_vars

\* a PATCH that set steps to [] and language to "", with title null and status
\* absent, was applied to one of two tasks after the clock had advanced
C1_Witness ==
    /\ resp.op = "update_task" /\ resp.code = 200
    /\ resp.arg.payload =
          Some([steps |-> Some(<<>>), language |-> Some(""), title |-> None,
                scheduled_for |-> None])
    /\ Len(task) = 2
    /\ \E i \in TasksNamed(task, resp.arg.task_id) :
          /\ task[i].steps = Some(<<>>) /\ task[i].language = Some("")
          /\ task[i].title # None
          /\ task[i].updated_at > task[i].created_at

\* C2 as claimed: whatever the state of the store connection, a malformed path
\* id is answered 400 without a store call, and a well-formed id that names no
\* task is answered 404.
C2_AsClaimed ==
    resp.op \in TaskOps =>
        /\ ~IsObjectIdStr(resp.arg.task_id) => resp.code = 400 /\ ~resp.store
        /\ (IsObjectIdStr(resp.arg.task_id) /\ TasksNamed(task, resp.arg.task_id) = {})
              => resp.code = 404

\* C2: with a store connection, update_task and complete_task answer 400
\* without a store call exactly when the path id is malformed, and 404 when
\* the id is well-formed and names no task; which of the two is decided by
\* the shape of the id.
C2_IdErrors ==
    (resp.op \in TaskOps /\ db # "None") =>
        /\ resp.code = 400 <=> ~IsObjectIdStr(resp.arg.task_id)
        /\ resp.code = 400 => ~resp.store
        /\ (IsObjectIdStr(resp.arg.task_id) /\ TasksNamed(task, resp.arg.task_id) = {})
              => resp.code = 404
        /\ resp.code = 404 => TasksNamed(task, resp.arg.task_id) = {}

\* an id of the right length that is not hexadecimal was refused while tasks exist
C2_Witness ==
    /\ resp.op = "complete_task" /\ db # "None" /\ task # <<>>
    /\ Len(resp.arg.task_id) = ObjectIdHexLen
    /\ resp.code = 400

\* C3: without a store connection every update_task and complete_task, for
\* every path id and payload, is answered 500 and never reports success.
C3_StoreUnavailable ==
    (resp.op \in TaskOps /\ db = "None") =>
        /\ resp.code = 500
        /\ resp.body = [detail |-> "Database not configured"]
        /\ ~resp.store

\* a PATCH with a malformed id was answered 500 for want of a connection
C3_Witness ==
    /\ resp.op = "update_task" /\ db = "None"
    /\ ~IsObjectIdStr(resp.arg.task_id)
    /\ resp.arg.payload # None
    /\ resp.code = 500

\* C4: with a store connection, complete_task on the id of an existing task
\* succeeds and leaves that task with status "completed" whatever its status
\* was, changing nothing but its status and updated_at.
C4_CompleteSets ==
    [][\A id \in PathIds :
        (CompleteTask(id) /\ db # "None" /\ TasksNamed(task, id) # {}) =>
            /\ resp'.code = 200
            /\ resp'.body = [completed |-> TRUE]
            /\ Len(task') = Len(task)
            /\ \A i \in 1..Len(task) :
                  IF i \in TasksNamed(task, id)
                  THEN /\ task'[i].status = Some("completed")
                       /\ SameBut(task[i], task'[i], {"status", "updated_at"})
                  ELSE task'[i] = task[i]]_vars

\* the task created with status "paused" was completed through an upper-case id
C4_Witness ==
    /\ resp.op = "complete_task" /\ resp.code = 200
    /\ resp.arg.task_id = Rep("A", ObjectIdHexLen)
    /\ \E i \in TasksNamed(task, resp.arg.task_id) :
          task[i].title = Some("Come") /\ task[i].status = Some("completed")

\* C5 as claimed: a second complete_task on the same task right after a
\* successful one leaves every field of every task, and the response, as the
\* first call left them.
C5_AsClaimed ==
    [][\A id \in PathIds :
        (/\ resp.op = "complete_task" /\ resp.arg.task_id = id /\ resp.code = 200
         /\ CompleteTask(id)) =>
            /\ Stringified(task') = Stringified(task)
            /\ resp'.code = resp.code /\ resp'.body = resp.body]_vars

\* C5: a second complete_task on the same task right after a successful one
\* gives the same response and leaves every task as the first call left it,
\* but for the updated_at of the completed task, which is stamped again.
C5_Idempotent ==
    [][\A id \in PathIds :
        (/\ resp.op = "complete_task" /\ resp.arg.task_id = id /\ resp.code = 200
         /\ CompleteTask(id)) =>
            /\ Len(task') = Len(task)
            /\ \A i \in 1..Len(task) :
                  IF i \in TasksNamed(task, id)
                  THEN SameBut(task[i], task'[i], {"updated_at"})
                  ELSE task'[i] = task[i]
            /\ resp'.code = resp.code /\ resp'.body = resp.body]_vars

\* a task was completed twice in a row, the second time at a later clock reading
C5_Witness ==
    /\ resp.op = "complete_task" /\ resp.code = 200 /\ resp.again
    /\ \E i \in TasksNamed(task, resp.arg.task_id) :
          task[i].status = Some("completed") /\ task[i].updated_at = MaxClock

\* what the summary is to return: the counts over the tasks and logs of the
\* dog d when filtered, over all of them otherwise
ExpectedSummary(filtered, d) ==
    LET T == {i \in 1..Len(task) : ~filtered \/ task[i].dog_id = d}
        L == {i \in 1..Len(progresslog) : ~filtered \/ progresslog[i].dog_id = d}
        S == {i \in L : progresslog[i].success = Some(TRUE)}
    IN  [total_tasks |-> Cardinality(T),
         completed_tasks |-> Cardinality({i \in T : task[i].status = Some("completed")}),
         success_rate |-> IF L = {} THEN None
                          ELSE Some(TrueDiv(Cardinality(S), Cardinality(L)))]

\* C6 as claimed: whenever a dog_id is given, the empty string included, the
\* summary counts the tasks and logs with that dog_id.
C6_AsClaimed ==
    resp.op = "analytics_summary" =>
        resp.body = ExpectedSummary(resp.arg.dog_id # None, resp.arg.dog_id)

\* C6: analytics_summary modifies no record and returns total_tasks,
\* completed_tasks (status exactly "completed") and success_rate (null without
\* logs, else successes / logs) over the tasks and logs with the given dog_id
\* when that dog_id is a non-empty string, and over all tasks and logs when
\* dog_id is absent or empty.
C6_Summary ==
    [][resp'.op = "analytics_summary" =>
        /\ UNCHANGED storeVars
        /\ resp'.code = 200
        /\ resp'.body = ExpectedSummary(Truthy(resp'.arg.dog_id), resp'.arg.dog_id)]_vars

\* the summary for dog "d1" counted one of two tasks and one success in one log
C6_Witness ==
    /\ resp.op = "analytics_summary" /\ resp.arg.dog_id = Some("d1")
    /\ Len(task) = 2 /\ Len(progresslog) = 1
    /\ resp.body = [total_tasks |-> 1, completed_tasks |-> 0,
                    success_rate |-> Some([num |-> 1, den |-> 1])]

\* the default and the maximum of limit, per list endpoint
ClaimedLimits ==
    [list_dogs |-> [default |-> 100, max |-> 500],
     list_exercises |-> [default |-> 200, max |-> 1000],
     list_tasks |-> [default |-> 50, max |-> 500],
     list_progress |-> [default |-> 200, max |-> 1000]]

\* C8: every list endpoint rejects, without querying the store, a limit below
\* 1 or above its maximum, and otherwise returns at most limit items, limit
\* being the requested value or the endpoint's default.
C8_ListLimit ==
    resp.op \in DOMAIN ClaimedLimits =>
        LET lim == resp.arg.limit
            c == ClaimedLimits[resp.op]
        IN  IF lim # None /\ (lim[1] < 1 \/ lim[1] > c.max)
            THEN resp.code = 422 /\ ~resp.store
            ELSE /\ resp.code = 200
                 /\ Len(resp.body.items) <= (IF lim = None THEN c.default ELSE lim[1])

\* list_tasks with limit 1 and no filter returned one of three tasks
C8_Witness ==
    /\ resp.op = "list_tasks" /\ resp.arg.limit = Some(1)
    /\ resp.arg.dog_id = None /\ resp.arg.status = None
    /\ Len(task) = 3 /\ Len(resp.body.items) = 1

IsPrefix(s, t) == Len(s) <= Len(t) /\ SubSeq(t, 1, Len(s)) = s

C10_NoLostWrite ==
    (/\ reqs.patch.pc = "done" /\ reqs.complete.pc = "done"
     /\ reqs.patch.found /\ reqs.complete.found) =>
        /\ reqs.patch.resp.code = 200 /\ reqs.complete.resp.code = 200
        /\ \A i \in TasksNamed(task, reqs.patch.task_id) :
              /\ task[i].status = Some("completed")
              /\ \A f \in SetByPayload(reqs.patch.payload) :
                    task[i][f] = reqs.patch.payload[1][f]

\* the PATCH read the clock first and wrote last: both writes are in the task
C10_Witness ==
    /\ reqs.patch.pc = "done" /\ reqs.complete.pc = "done"
    /\ reqs.patch.found /\ reqs.complete.found
    /\ SetByPayload(reqs.patch.payload) = {"title", "steps"}
    /\ reqs.patch.set_doc.updated_at < reqs.complete.set_doc.updated_at
    /\ \E i \in TasksNamed(task, reqs.patch.task_id) :
          /\ task[i].updated_at = reqs.patch.set_doc.updated_at
          /\ task[i].status = Some("completed") /\ task[i].title = Some("Heel")

Welcomes == SelectSeq(wsSent, LAMBDA f : f.type = "welcome")
Echoes == SelectSeq(wsSent, LAMBDA f : f.type = "echo")
EchoTexts == [i \in 1..Len(Echoes) |-> Echoes[i].text]
Front(s) == SubSeq(s, 1, Len(s) - 1)

\* C7 as claimed: once the handler is past the welcome, the welcome frame has
\* been sent exactly once and first; every frame received has its one echo,
\* in order, whenever the handler is about to receive or has returned; and
\* no error propagates.
C7_AsClaimed ==
    /\ wsPc \in {"receive", "echo", "done"} =>
          Len(Welcomes) = 1 /\ wsSent[1] = WelcomeFrame
    /\ wsPc \in {"receive", "done"} => EchoTexts = wsRecv
    /\ wsPc # "error"

\* what holds of the frames at each position of the handler
LiveInvariant ==
    /\ wsPc # "error"
    /\ Len(Welcomes) <= 1
    /\ wsSent # <<>> => wsSent[1] = WelcomeFrame
    /\ wsPc \in {"receive", "echo"} => Len(Welcomes) = 1
    /\ wsPc = "receive" => EchoTexts = wsRecv
    /\ wsPc = "echo" => EchoTexts = Front(wsRecv) /\ wsData = wsRecv[Len(wsRecv)]
    /\ wsPc = "done" =>
          /\ wsClient = "closed"
          /\ EchoTexts = wsRecv \/ (wsRecv # <<>> /\ EchoTexts = Front(wsRecv))
          /\ Welcomes = <<>> => wsRecv = <<>>

\* C7: the welcome frame is the first frame sent and is sent at most once,
\* exactly once unless the client disconnected before it was sent; each frame
\* received is echoed once with its text, before the next is received and in
\* order, except the last when the client disconnected before its echo was
\* sent; once the client has disconnected no frame is sent, the handler
\* returns, and no error propagates.
C7_LiveChannel ==
    /\ []LiveInvariant
    /\ [][wsClient = "closed" => wsSent' = wsSent]_vars
    /\ (wsClient = "closed" ~> wsPc = "done")

\* the client sent X and Y and left before the echo of Y was sent
C7_Witness ==
    /\ wsPc = "done"
    /\ wsRecv = <<"X", "Y">>
    /\ wsSent = <<WelcomeFrame, EchoFrame("X")>>

====
